---- MODULE Spec2Model ----
(***************************************************************************)
(* EventVisualizer (src/event_detector/event_visualizer.py).               *)
(*                                                                         *)
(* The state of an EventVisualizer is the list active_pass_events.  Every  *)
(* method call is one action.  The arguments of the most recent call are   *)
(* kept in `call`, the drawing primitives it issued on the frame, in       *)
(* order, in `drawn`, and the exception it ended with (or "none") in       *)
(* `raised`.  A call that raises keeps the assignments it made before the  *)
(* raise, as in Python.                                                    *)
(***************************************************************************)
EXTENDS Integers, Sequences, FiniteSets, TLC

VARIABLES
    active_pass_events, \* self.active_pass_events
    call,               \* the most recent call: method name and arguments
    drawn,              \* drawing primitives issued by that call, in order
    raised,             \* "none", or the exception that call ended with
    tracked,            \* history: one PassEvent followed through the run
    tracked_calls,      \* history: draw_events calls that listed it (2 = more than one)
    tracked_at_start,   \* history: it was listed by a call at its start_frame
    tracked_pruned,     \* history: it was a member and has been removed
    monotone            \* history: frame_num never decreased so far

vars == <<active_pass_events, call, drawn, raised,
          tracked, tracked_calls, tracked_at_start, tracked_pruned, monotone>>

history == <<tracked, tracked_calls, tracked_at_start, tracked_pruned, monotone>>

----------------------------------------------------------------------------
(* Bounds of the model *)

MaxFrame == 3
MaxEvents == 2
MaxActive == 2

Frames == 0..MaxFrame
\* player identifiers; 0 is a valid identifier
PlayerIds == {0, 1}
Teams == {1, 2}

\* Python's None, as a receiver_id
None == -1

----------------------------------------------------------------------------
(* Events (the classes of .events, of which only the attributes the        *)
(* visualizer reads are known)                                             *)

PassEvent(s, e, p, r) ==
    [kind |-> "PassEvent", start_frame |-> s, end_frame |-> e,
     passer_id |-> p, receiver_id |-> r]

PressureEvent(s, e, by, on, pct) ==
    [kind |-> "PressureEvent", start_frame |-> s, end_frame |-> e,
     pressuring_player_id |-> by, pressured_player_id |-> on,
     pressure_intensity |-> pct]

PossessionChangeEvent(s, prev, new) ==
    [kind |-> "PossessionChangeEvent", start_frame |-> s, end_frame |-> s,
     previous_team |-> prev, new_team |-> new]

\* event.description: a text fixed per event by the detector
Description(ev) ==
    [template |-> ev.kind,
     args |-> CASE ev.kind = "PassEvent" ->
                     <<ev.start_frame, ev.end_frame, ev.passer_id, ev.receiver_id>>
                [] ev.kind = "PressureEvent" ->
                     <<ev.start_frame, ev.end_frame, ev.pressuring_player_id,
                       ev.pressured_player_id, ev.pressure_intensity>>
                [] OTHER ->
                     <<ev.start_frame, ev.end_frame, ev.previous_team, ev.new_team>>]

isinstance(ev, cls) == ev.kind = cls

----------------------------------------------------------------------------
(* Drawing primitives *)

\* draw_event_banner: the overlay band and the outlined text, as one primitive
Banner(text, color) ==
    [prim |-> "banner", text |-> text, color |-> color]

ArrowedLine(from, to) ==
    [prim |-> "arrowedLine", from |-> from, to |-> to, color |-> <<0, 255, 0>>]

Circle(center, radius) ==
    [prim |-> "circle", center |-> center, radius |-> radius, color |-> <<0, 0, 255>>]

Line(from, to, color) ==
    [prim |-> "line", from |-> from, to |-> to, color |-> color]

PassBannerColor == <<0, 128, 0>>
PressureBannerColor == <<255, 0, 0>>
PossessionBannerColor == <<0, 0, 255>>

----------------------------------------------------------------------------
(* draw_events *)

\* Prune with the comparison off by one: the last frame of a window is lost
PruneStrict(active, frame_num) ==
    SelectSeq(active, LAMBDA e : e.end_frame > frame_num)

\* line 102: keep the members whose window has not ended before frame_num
Prune(active, frame_num) ==
    SelectSeq(active, LAMBDA e : e.end_frame >= frame_num)

\* Absorb without the isinstance test
AbsorbAll(active, events) == active \o events

\* lines 105-107: append every PassEvent of events, in order
Absorb(active, events) ==
    active \o SelectSeq(events, LAMBDA e : isinstance(e, "PassEvent"))

\* line 112: numerator and denominator of progress
ProgressNum(e, frame_num) == frame_num - e.start_frame
ProgressDen(e) == e.end_frame - e.start_frame

\* line 113: 0 <= n / d <= 1, for d # 0
InUnitInterval(n, d) ==
    IF d > 0 THEN 0 <= n /\ n <= d ELSE d <= n /\ n <= 0

\* line 112 raises ZeroDivisionError at the first member with a zero denominator
FirstZeroDen(active) ==
    LET zs == {i \in 1..Len(active) : ProgressDen(active[i]) = 0}
    IN IF zs = {} THEN Len(active) + 1
       ELSE CHOOSE i \in zs : \A j \in zs : i <= j

BannerOfPass(e) == Banner(Description(e), PassBannerColor)

\* lines 111-118: the banners drawn before the loop ends or raises
PassLoopDrawn(active, frame_num) ==
    LET before == SubSeq(active, 1, FirstZeroDen(active) - 1)
        shown == SelectSeq(before,
                     LAMBDA e : InUnitInterval(ProgressNum(e, frame_num), ProgressDen(e)))
    IN [i \in 1..Len(shown) |-> BannerOfPass(shown[i])]

PassLoopRaises(active) == FirstZeroDen(active) <= Len(active)

BannerOfOther(e) ==
    IF isinstance(e, "PressureEvent")
    THEN Banner(Description(e), PressureBannerColor)
    ELSE Banner(Description(e), PossessionBannerColor)

\* lines 121-133: one banner per PressureEvent / PossessionChangeEvent
EventLoopDrawn(events) ==
    LET others == SelectSeq(events,
                      LAMBDA e : isinstance(e, "PressureEvent")
                                 \/ isinstance(e, "PossessionChangeEvent"))
    IN [i \in 1..Len(others) |-> BannerOfOther(others[i])]

Count(seq, x) == Cardinality({i \in 1..Len(seq) : seq[i] = x})

Member(seq, x) == \E i \in 1..Len(seq) : seq[i] = x

draw_events(events, frame_num) ==
    LET active == Absorb(Prune(active_pass_events, frame_num), events)
        passes == PassLoopDrawn(active, frame_num)
    IN /\ Len(active) <= MaxActive
       /\ active_pass_events' = active
       /\ call' = [op |-> "draw_events", events |-> events, frame_num |-> frame_num]
       /\ IF PassLoopRaises(active)
          THEN /\ raised' = "ZeroDivisionError"
               /\ drawn' = passes
          ELSE /\ raised' = "none"
               /\ drawn' = passes \o EventLoopDrawn(events)

----------------------------------------------------------------------------
(* The per-event drawing methods *)

\* tracks["players"][frame] is modelled by the set of player ids it holds;
\* a player's position in a frame is named by the pair <<frame, id>>
Position(frame, id) == <<frame, id>>

\* truth value of an identifier in a Python condition
Truthy(id) == id # None /\ id # 0

draw_event_banner(text, color) ==
    /\ active_pass_events' = active_pass_events
    /\ call' = [op |-> "draw_event_banner", text |-> text, color |-> color]
    /\ drawn' = <<Banner(text, color)>>
    /\ raised' = "none"

PassBannerText(event) ==
    [template |-> "PASS IN PROGRESS: Player {} -> Player {}",
     args |-> <<event.passer_id, event.receiver_id>>]

\* line 41: the receiver is looked up only behind this condition
ReceiverResolved(event, tracks) ==
    Truthy(event.receiver_id) /\ event.receiver_id \in tracks[event.end_frame]

draw_pass_event(event, tracks) ==
    /\ active_pass_events' = active_pass_events
    /\ call' = [op |-> "draw_pass_event", event |-> event, tracks |-> tracks]
    /\ IF event.passer_id \notin tracks[event.start_frame]
       THEN /\ raised' = "KeyError"
            /\ drawn' = <<>>
       ELSE /\ raised' = "none"
            /\ drawn' =
                 (IF ReceiverResolved(event, tracks)
                  THEN <<ArrowedLine(Position(event.start_frame, event.passer_id),
                                     Position(event.end_frame, event.receiver_id))>>
                  ELSE <<>>)
                 \o <<Banner(PassBannerText(event), <<0, 255, 0>>)>>

PressureBannerText(event) ==
    [template |-> "PRESSURE: Player {} on Player {}",
     args |-> <<event.pressuring_player_id, event.pressured_player_id>>]

\* line 87, for an intensity given in percent
IntensityColor(pct) ==
    <<0, (255 * (100 - pct)) \div 100, (255 * pct) \div 100>>

draw_pressure_event(event, tracks, radius) ==
    /\ active_pass_events' = active_pass_events
    /\ call' = [op |-> "draw_pressure_event", event |-> event, tracks |-> tracks]
    /\ IF \/ event.pressured_player_id \notin tracks[event.start_frame]
          \/ event.pressuring_player_id \notin tracks[event.start_frame]
       THEN /\ raised' = "KeyError"
            /\ drawn' = <<>>
       ELSE /\ raised' = "none"
            /\ drawn' =
                 <<Circle(Position(event.start_frame, event.pressured_player_id), radius),
                   Line(Position(event.start_frame, event.pressuring_player_id),
                        Position(event.start_frame, event.pressured_player_id),
                        IntensityColor(event.pressure_intensity)),
                   Banner(PressureBannerText(event), <<0, 0, 255>>)>>

PossessionBannerText(event) ==
    [template |-> "POSSESSION CHANGE: Team {} -> Team {}",
     args |-> <<event.previous_team, event.new_team>>]

draw_possession_change(event) ==
    /\ active_pass_events' = active_pass_events
    /\ call' = [op |-> "draw_possession_change", event |-> event]
    /\ drawn' = <<Banner(PossessionBannerText(event), <<255, 165, 0>>)>>
    /\ raised' = "none"

----------------------------------------------------------------------------
(* Inputs *)

\* PassEvents with start_frame <= end_frame, as the detector produces them:
\* a window of two frames, one of three, and a single-frame window
PassPool == {PassEvent(1, 2, 0, 1), PassEvent(0, 2, 1, None), PassEvent(1, 1, 1, 0)}
PressurePool == {PressureEvent(0, 0, 0, 1, 100)}
PossessionPool == {PossessionChangeEvent(0, 1, 2)}
EventPool == PassPool \cup PressurePool \cup PossessionPool

RECURSIVE SeqsUpTo(_, _)
SeqsUpTo(S, n) ==
    IF n = 0 THEN {<<>>}
    ELSE LET shorter == SeqsUpTo(S, n - 1)
         IN shorter \cup {Append(q, x) : q \in {r \in shorter : Len(r) = n - 1}, x \in S}

EventLists == SeqsUpTo(EventPool, MaxEvents)
PassLists == SeqsUpTo(PassPool, MaxEvents)

\* arguments of the per-event methods
PassArgs ==
    {PassEvent(0, 1, a[1], a[2]) :
        a \in {b \in PlayerIds \X (PlayerIds \cup {None}) : b[1] # b[2]}}
PressureArgs ==
    {PressureEvent(0, 0, by, on, pct) :
        by \in {0}, on \in {1}, pct \in {0, 100}}
PossessionArgs ==
    {PossessionChangeEvent(0, t[1], t[2]) : t \in {u \in Teams \X Teams : u[1] # u[2]}}

\* track tables: every player in every frame, or one entry missing
FullTracks == [f \in Frames |-> PlayerIds]
TrackTables ==
    {FullTracks}
    \cup {[FullTracks EXCEPT ![f] = PlayerIds \ {p}] : f \in 0..1, p \in PlayerIds}

\* int(40 + 10 * sin(ticks * 0.0001)) lies in 30..50, by the tick counter: the
\* two extreme radii
PulseRadii == {30, 50}

BannerTexts == {[template |-> "text", args |-> <<>>]}
BannerColors == {PassBannerColor, PressureBannerColor}

----------------------------------------------------------------------------
(* History of one PassEvent, kept beside the program state *)

Untracked == [kind |-> "untracked"]

Track(events, frame_num) ==
    /\ tracked' = tracked
    /\ tracked_calls' =
           IF Member(events, tracked)
           THEN (IF tracked_calls = 0 THEN 1 ELSE 2)
           ELSE tracked_calls
    /\ tracked_at_start' =
           (tracked_at_start
            \/ (Member(events, tracked) /\ frame_num = tracked.start_frame))
    /\ tracked_pruned' =
           (tracked_pruned
            \/ (Member(active_pass_events, tracked)
                /\ ~Member(Prune(active_pass_events, frame_num), tracked)))
    /\ monotone' =
           (monotone /\ (call.op = "draw_events" => frame_num >= call.frame_num))

----------------------------------------------------------------------------
(* Specifications *)

InitProgram ==
    /\ active_pass_events = <<>>
    /\ call = [op |-> "__init__"]
    /\ drawn = <<>>
    /\ raised = "none"

InitHistory ==
    /\ tracked_calls = 0
    /\ tracked_at_start = FALSE
    /\ tracked_pruned = FALSE
    /\ monotone = TRUE

Init == InitProgram /\ InitHistory /\ tracked = Untracked

CallDrawEvents ==
    \E events \in EventLists, frame_num \in Frames :
        draw_events(events, frame_num) /\ UNCHANGED history

CallDrawEventBanner ==
    \E text \in BannerTexts, color \in BannerColors :
        draw_event_banner(text, color) /\ UNCHANGED history

CallDrawPassEvent ==
    \E event \in PassArgs, tracks \in TrackTables :
        draw_pass_event(event, tracks) /\ UNCHANGED history

CallDrawPressureEvent ==
    \E event \in PressureArgs, tracks \in TrackTables, radius \in PulseRadii :
        draw_pressure_event(event, tracks, radius) /\ UNCHANGED history

CallDrawPossessionChange ==
    \E event \in PossessionArgs :
        draw_possession_change(event) /\ UNCHANGED history

Next ==
    \/ CallDrawEvents
    \/ CallDrawEventBanner
    \/ CallDrawPassEvent
    \/ CallDrawPressureEvent
    \/ CallDrawPossessionChange

Spec == Init /\ [][Next]_vars

\* any sequence of draw_events calls, with one PassEvent of the pool followed;
\* the events lists hold PassEvents only, the other events never being absorbed
InitTracked == InitProgram /\ InitHistory /\ tracked \in PassPool

TrackedDrawEvents ==
    \E events \in PassLists, frame_num \in Frames :
        draw_events(events, frame_num) /\ Track(events, frame_num)

NextTracked == TrackedDrawEvents

SpecTracked == InitTracked /\ [][NextTracked]_vars

----------------------------------------------------------------------------
(* Vocabulary of the properties *)

IsDrawEvents == call.op = "draw_events"
Returned == raised = "none"

\* frame_num lies in the event's window
InWindow(e, frame_num) == e.start_frame <= frame_num /\ frame_num <= e.end_frame

IsOther(e) == isinstance(e, "PressureEvent") \/ isinstance(e, "PossessionChangeEvent")

TrackedMember == Member(active_pass_events, tracked)
TrackedDrawn == Member(drawn, BannerOfPass(tracked))

\* the banners a draw_events call is to draw, in order: the in-window members
\* in insertion order, then one per PressureEvent / PossessionChangeEvent
ExpectedBanners ==
    LET shown == SelectSeq(active_pass_events, LAMBDA e : InWindow(e, call.frame_num))
        others == SelectSeq(call.events, IsOther)
    IN [i \in 1..Len(shown) |-> Banner(Description(shown[i]), PassBannerColor)]
       \o [i \in 1..Len(others) |->
              Banner(Description(others[i]),
                     IF isinstance(others[i], "PressureEvent")
                     THEN PressureBannerColor ELSE PossessionBannerColor)]

----------------------------------------------------------------------------
(* C1 *)

\* C1: after every draw_events call that returns, every member of
\* active_pass_events has end_frame >= the frame_num of that call.
C1_MembersNotExpired ==
    (IsDrawEvents /\ Returned) =>
        \A i \in 1..Len(active_pass_events) :
            active_pass_events[i].end_frame >= call.frame_num

\* What the code does keep: the members a call retains from before it are
\* unexpired; only the PassEvents the call itself listed can be expired.
C1_RetainedNotExpired ==
    [][IsDrawEvents' =>
          \A i \in 1..Len(active_pass_events') :
              \/ active_pass_events'[i].end_frame >= call'.frame_num
              \/ Member(call'.events, active_pass_events'[i])]_vars

----------------------------------------------------------------------------
(* C2 *)

\* C2: with non-decreasing frame_num, a PassEvent with start_frame < end_frame
\* that was listed by the call at its start_frame is a member after every call
\* with frame_num in [start_frame, end_frame] and is not a member after any
\* call with frame_num > end_frame.
C2_MemberExactlyThroughWindow ==
    (IsDrawEvents /\ monotone /\ tracked_at_start
     /\ tracked.start_frame < tracked.end_frame) =>
        /\ InWindow(tracked, call.frame_num) => TrackedMember
        /\ call.frame_num > tracked.end_frame => ~TrackedMember

\* The same, for an event that no call lists after its window has ended.
C2_UnlessListedAgain ==
    (IsDrawEvents /\ monotone /\ tracked_at_start
     /\ tracked.start_frame < tracked.end_frame) =>
        /\ InWindow(tracked, call.frame_num) => TrackedMember
        /\ (call.frame_num > tracked.end_frame /\ ~Member(call.events, tracked))
               => ~TrackedMember

----------------------------------------------------------------------------
(* C3 *)

\* C3: a draw_events call whose active set holds a PassEvent with
\* start_frame = end_frame = frame_num returns without a division error and
\* draws that event's banner.
C3_DegenerateWindowDrawn ==
    IsDrawEvents =>
        \A i \in 1..Len(active_pass_events) :
            LET e == active_pass_events[i]
            IN (e.start_frame = call.frame_num /\ e.end_frame = call.frame_num)
                   => (Returned /\ Member(drawn, BannerOfPass(e)))

\* What the code does: every call with a single-frame member raises.
C3_DegenerateMemberRaises ==
    IsDrawEvents =>
        ((\E i \in 1..Len(active_pass_events) :
              active_pass_events[i].start_frame = active_pass_events[i].end_frame)
         <=> raised = "ZeroDivisionError")

----------------------------------------------------------------------------
(* C4 *)

C4_Removal ==
    /\ (TrackedMember /\ ~TrackedMember') => call'.frame_num > tracked.end_frame
    /\ (TrackedMember /\ call'.frame_num > tracked.end_frame) => ~TrackedMember'
    /\ tracked_pruned => (~TrackedMember' /\ ~TrackedDrawn')

\* C4 as stated: over any sequence of draw_events calls a PassEvent leaves
\* active_pass_events only in a call whose frame_num exceeds its end_frame,
\* leaves it in the first such call, and once removed is never a member and
\* never has its banner drawn again.
C4_AbsentActivePruned == [][IsDrawEvents' => C4_Removal]_vars

\* C4, amended: the same for a PassEvent that a single draw_events call lists:
\* it enters in that call, is removed by the first later call whose frame_num
\* exceeds its end_frame, and once removed is never a member and never has
\* its banner drawn again.
C4_ListedByOneCall ==
    [][(IsDrawEvents' /\ tracked_calls' <= 1) =>
          /\ C4_Removal
          /\ (~TrackedMember /\ TrackedMember')
                 => (Member(call'.events, tracked) /\ ~tracked_pruned)]_vars

\* a later call inside the window, out of frame order, finds the pruned event absent
C4_Witness ==
    /\ IsDrawEvents
    /\ tracked_pruned /\ tracked_calls = 1
    /\ InWindow(tracked, call.frame_num)
    /\ ~TrackedMember

----------------------------------------------------------------------------
(* C5 *)

\* C5: a draw_events call that returns has drawn, for every PressureEvent of
\* its events list, the circle on the pressured player, the line between the
\* two players and the banner, and for every PossessionChangeEvent its banner.
C5_FullVisualization ==
    (IsDrawEvents /\ Returned) =>
        \A i \in 1..Len(call.events) :
            LET e == call.events[i]
            IN /\ isinstance(e, "PressureEvent") =>
                    /\ \E j \in 1..Len(drawn) :
                           /\ drawn[j].prim = "circle"
                           /\ drawn[j].center =
                                  Position(e.start_frame, e.pressured_player_id)
                    /\ \E j \in 1..Len(drawn) :
                           /\ drawn[j].prim = "line"
                           /\ drawn[j].to =
                                  Position(e.start_frame, e.pressured_player_id)
                    /\ \E j \in 1..Len(drawn) :
                           /\ drawn[j].prim = "banner"
                           /\ drawn[j].text \in {Description(e), PressureBannerText(e)}
               /\ isinstance(e, "PossessionChangeEvent") =>
                    \E j \in 1..Len(drawn) :
                        /\ drawn[j].prim = "banner"
                        /\ drawn[j].text \in {Description(e), PossessionBannerText(e)}

\* What the code does: a draw_events call draws banners and nothing else.
C5_BannersOnly ==
    IsDrawEvents => \A j \in 1..Len(drawn) : drawn[j].prim = "banner"

----------------------------------------------------------------------------
(* C6 *)

\* C6: the banners of one draw_events call are the banners of the in-window
\* members in insertion order, followed by one banner per PressureEvent /
\* PossessionChangeEvent in the order of the events list.
C6_BannerOrder == IsDrawEvents => drawn = ExpectedBanners

\* The same, for the calls that return.
C6_BannerOrderOfReturnedCalls == (IsDrawEvents /\ Returned) => drawn = ExpectedBanners

----------------------------------------------------------------------------
(* C7 *)

\* C7: draw_pass_event, the passer being in tracks at start_frame, draws the
\* banner, and draws the arrow exactly when receiver_id is not None and is in
\* tracks at end_frame.
C7_ArrowIffReceiverPresent ==
    (call.op = "draw_pass_event"
     /\ call.event.passer_id \in call.tracks[call.event.start_frame]) =>
        /\ Returned
        /\ Member(drawn, Banner(PassBannerText(call.event), <<0, 255, 0>>))
        /\ (\E j \in 1..Len(drawn) : drawn[j].prim = "arrowedLine")
               <=> (/\ call.event.receiver_id # None
                    /\ call.event.receiver_id \in call.tracks[call.event.end_frame])

\* The same, for the receivers other than player 0.
C7_ExceptReceiverZero ==
    (call.op = "draw_pass_event"
     /\ call.event.passer_id \in call.tracks[call.event.start_frame]
     /\ call.event.receiver_id # 0) =>
        /\ Returned
        /\ Member(drawn, Banner(PassBannerText(call.event), <<0, 255, 0>>))
        /\ (\E j \in 1..Len(drawn) : drawn[j].prim = "arrowedLine")
               <=> (/\ call.event.receiver_id # None
                    /\ call.event.receiver_id \in call.tracks[call.event.end_frame])

----------------------------------------------------------------------------
(* C8 *)

\* C8: in a draw_events call the banner of a member with
\* start_frame < end_frame is drawn exactly when
\* start_frame <= frame_num <= end_frame, which is exactly when its progress
\* (frame_num - start_frame) / (end_frame - start_frame) lies in [0, 1]; a
\* member whose window starts after frame_num is kept and not drawn.
C8_DrawnIffInWindow ==
    IsDrawEvents =>
        \A i \in 1..Len(active_pass_events) :
            LET e == active_pass_events[i]
            IN e.start_frame < e.end_frame =>
                   /\ Member(drawn, BannerOfPass(e)) <=> InWindow(e, call.frame_num)
                   /\ InWindow(e, call.frame_num)
                          <=> InUnitInterval(ProgressNum(e, call.frame_num),
                                             ProgressDen(e))

\* The same, for the calls that return.
C8_DrawnIffInWindowOfReturnedCalls ==
    (IsDrawEvents /\ Returned) =>
        \A i \in 1..Len(active_pass_events) :
            LET e == active_pass_events[i]
            IN e.start_frame < e.end_frame =>
                   /\ Member(drawn, BannerOfPass(e)) <=> InWindow(e, call.frame_num)
                   /\ InWindow(e, call.frame_num)
                          <=> InUnitInterval(ProgressNum(e, call.frame_num),
                                             ProgressDen(e))

----------------------------------------------------------------------------
(* C9 *)

\* C9: PassEvents are absorbed without de-duplication, and on a frame of its
\* window the banner of a PassEvent is drawn once per membership: k times for
\* an event that is a member k times.
C9_DrawnOncePerMembership ==
    IsDrawEvents =>
        \A e \in PassPool :
            InWindow(e, call.frame_num) =>
                Count(drawn, BannerOfPass(e)) = Count(active_pass_events, e)

\* The same, for the calls that return.
C9_DrawnOncePerMembershipOfReturnedCalls ==
    (IsDrawEvents /\ Returned) =>
        \A e \in PassPool :
            InWindow(e, call.frame_num) =>
                Count(drawn, BannerOfPass(e)) = Count(active_pass_events, e)

\* No de-duplication: every listing is appended to what the pruning kept.
C9_EveryListingAppended ==
    [][IsDrawEvents' =>
          \A e \in PassPool :
              Count(active_pass_events', e)
                  = Count(Prune(active_pass_events, call'.frame_num), e)
                    + Count(call'.events, e)]_vars

----------------------------------------------------------------------------
(* C10 *)

\* C10: only PassEvents are ever members of active_pass_events: a draw_events
\* call adds no PressureEvent or PossessionChangeEvent, each member after it
\* being a PassEvent that was a member before or is listed by the call, and
\* the four drawing methods leave active_pass_events as it is.
C10_OnlyPassEventsPersist ==
    [][/\ \A i \in 1..Len(active_pass_events') :
              /\ isinstance(active_pass_events'[i], "PassEvent")
              /\ \/ Member(active_pass_events, active_pass_events'[i])
                 \/ IsDrawEvents' /\ Member(call'.events, active_pass_events'[i])
       /\ ~IsDrawEvents' => active_pass_events' = active_pass_events]_vars

\* a call listing a PressureEvent, a PossessionChangeEvent or both beside a
\* PassEvent has returned, with a member retained from an earlier call
C10_Witness ==
    /\ IsDrawEvents /\ Returned
    /\ \E i \in 1..Len(call.events) : IsOther(call.events[i])
    /\ \E i \in 1..Len(call.events) : isinstance(call.events[i], "PassEvent")
    /\ Len(active_pass_events)
           > Cardinality({i \in 1..Len(call.events) :
                             isinstance(call.events[i], "PassEvent")})

====
